---- MODULE Spec2Model ----
(***************************************************************************)
(* The almanac resolver of day 5 (src/src/day5/mod.rs): range rules,        *)
(* category maps, chain resolution, seed ranges, workers and the parallel  *)
(* search of part 2.                                                        *)
(***************************************************************************)
EXTENDS Integers, Sequences, FiniteSets, TLC

\* ------------------------------------------------------------------ bounds

\* u64 scaled down: values live in 0..Modulus-1
Modulus == 256
\* a rule's len is drawn from 0..MaxLen
MaxLen == 1
\* a Category Map holds at most MaxRules rules when Map::map is exercised
MaxRules == 3
\* an Almanac holds at most MaxMaps maps when Almanac::resolve is exercised
MaxMaps == 2
\* the seeds line holds at most MaxSeeds numbers
MaxSeeds == 4
\* the second number of a seed pair (the range length) is drawn from 0..MaxRange
MaxRange == 2
\* how many times ranges() is called on one seed list
MaxPasses == 2

\* ------------------------------------------------------------------ values

\* Option::None
None == -1
\* a panic unwinding out of the function
Panic == -2
\* the function never returns
Diverge == -3

Categories == {"seed", "soil", "location"}

\* start fields (destination_start, source_start) of the rules drawn as inputs
Starts == {0, 1}

SeqsUpTo(S, k) == UNION {[1..m -> S] : m \in 0..k}

MinOf(S) == CHOOSE x \in S : \A y \in S : x <= y

\* ------------------------------------------------------------------ u64

\* a + b on u64: an overflow panics with overflow checks on and wraps without
U64Add(a, b, checks) ==
    IF a + b >= Modulus
    THEN IF checks THEN Panic ELSE (a + b) % Modulus
    ELSE a + b

\* a - b on u64
U64Sub(a, b, checks) ==
    IF a < b
    THEN IF checks THEN Panic ELSE (a - b + Modulus) % Modulus
    ELSE a - b

\* ------------------------------------------------------------------ MapRange

MapRange(d, s, l) == [destination_start |-> d, source_start |-> s, len |-> l]

\* MapRange::range
MapRangeRange(r, checks) ==
    <<r.source_start, U64Add(r.source_start, r.len, checks)>>

\* MapRange::map
MapRangeMap(r, n, checks) ==
    LET rg == MapRangeRange(r, checks)
        range_start == rg[1]
        range_end == rg[2]
    IN  IF range_end = Panic THEN Panic
        ELSE IF n >= range_start /\ n <= range_end
             THEN LET t == U64Add(r.destination_start, n, checks)
                  IN  IF t = Panic THEN Panic ELSE U64Sub(t, range_start, checks)
             ELSE None

\* ------------------------------------------------------------------ Map

Path(s, d) == [source |-> s, destination |-> d]

Map(p, rs) == [category |-> p, ranges |-> rs]

\* Iterator::find_map over the rules from index i on
RECURSIVE FindMap(_, _, _, _)
FindMap(ranges, n, i, checks) ==
    IF i > Len(ranges) THEN None
    ELSE LET m == MapRangeMap(ranges[i], n, checks)
         IN  IF m # None THEN m ELSE FindMap(ranges, n, i + 1, checks)

\* Map::map
MapMap(map, n, checks) == FindMap(map.ranges, n, 1, checks)

\* ------------------------------------------------------------------ Almanac

\* Almanac::map: the index of the first map whose source is the label, 0 if none
AlmanacMap(maps, source) ==
    LET hits == {i \in 1..Len(maps) : maps[i].category.source = source}
    IN  IF hits = {} THEN 0 ELSE MinOf(hits)

\* one iteration of the while loop of Almanac::resolve on the located map
HopValue(map, dest, checks) ==
    LET n == MapMap(map, dest, checks)
    IN  IF n # None THEN n ELSE dest

\* the while loop of Almanac::resolve from the loop state (dest, next_map); the
\* loop is deterministic, so it never returns once it is back in a state it has
\* been in (seen)
RECURSIVE ResolveLoop(_, _, _, _, _, _)
ResolveLoop(maps, dest, next_map, destination, seen, checks) ==
    LET i == AlmanacMap(maps, next_map)
    IN  IF i = 0 THEN dest
        ELSE IF <<dest, next_map>> \in seen THEN Diverge
        ELSE LET d == HopValue(maps[i], dest, checks)
             IN  IF d = Panic THEN Panic
                 ELSE IF maps[i].category.destination = destination THEN d
                 ELSE ResolveLoop(maps, d, maps[i].category.destination, destination,
                                  seen \cup {<<dest, next_map>>}, checks)

\* Almanac::resolve
Resolve(maps, seed, source, destination, checks) ==
    ResolveLoop(maps, seed, source, destination, {}, checks)

\* ------------------------------------------------------------------ Seeds

\* a token of the seeds line that str::parse::<u64> rejects
Bad == -4

\* a from_str that reads a token it cannot parse as 0 instead of failing
SeedsFromStrLenient(toks) ==
    [ok |-> TRUE, list |-> [i \in 1..Len(toks) |-> IF toks[i] = Bad THEN 0 ELSE toks[i]]]

\* Seeds::from_str on the tokens after the colon: Ok(Seeds(numbers)) or Err
SeedsFromStr(toks) ==
    IF \E i \in 1..Len(toks) : toks[i] = Bad
    THEN [ok |-> FALSE, list |-> <<>>]
    ELSE [ok |-> TRUE, list |-> toks]

\* chunks_exact(2) in the place of chunks(2): a trailing single number is dropped
NumChunksExact(list) == Len(list) \div 2

\* the number of chunks self.0.chunks(2) yields
NumChunks(list) == (Len(list) + 1) \div 2

\* a ranges() that takes the length for the end of the range
SeedsRangeLenAsEnd(list, k, checks) ==
    <<list[2 * k - 1], IF 2 * k <= Len(list) THEN list[2 * k] ELSE list[2 * k - 1]>>

\* a ranges() that takes a lone trailing number as a start with no length
SeedsRangeLoneIsEmpty(list, k, checks) ==
    LET range_start == list[2 * k - 1]
        range_len == IF 2 * k <= Len(list) THEN list[2 * k] ELSE 0
    IN  <<range_start, U64Add(range_start, range_len, checks)>>

\* Seeds::ranges: the k-th item of the iterator (k from 1); the second
\* component is Panic when the closure panics on an overflowing sum
SeedsRange(list, k, checks) ==
    LET range_start == list[2 * k - 1]
        range_len == IF 2 * k <= Len(list) THEN list[2 * k] ELSE list[2 * k - 1]
    IN  <<range_start, U64Add(range_start, range_len, checks)>>

\* ------------------------------------------------------------------ state

VARIABLES
    overflow_checks, \* the build: TRUE when integer overflow panics (dev profile)
    almanac,      \* Almanac.maps
    n,            \* the argument of MapRange::map / Map::map
    op,           \* the call made: <<function, rule index>>
    out,          \* what the call returned
    rargs,        \* the arguments of the Almanac::resolve call
    dest,         \* Almanac::resolve: let mut dest
    next_map,     \* Almanac::resolve: let mut next_map
    rpc,          \* Almanac::resolve: "loop" | "done" | "panic"
    hops,         \* history: the loop iterations made, in order (a walk that
                  \* returns makes at most Len(almanac) of them; no more are kept)
    tokens,       \* part_2: the tokens of the seeds line
    seeds,        \* part_2: Seeds.0
    pc,           \* part_2: "start" | "spawn" | "join" | "done" | "err" | "panic"
    workers,      \* part_2: the spawned Workers, in handle order
    joined,       \* part_2: how many handles the reduction has joined
    acc,          \* part_2: the running minimum of Iterator::min
    result,       \* part_2: the Ok value returned
    finished,     \* history: the Workers in the order their threads ended
    iter,         \* Seeds::ranges: the chunk the live iterator yields next (0: no
                  \* iterator is live)
    yielded,      \* Seeds::ranges: the items the live iterator has yielded
    passes        \* history: the items of every iterator run to its end

mapVars == <<n, op, out>>
resolveVars == <<rargs, dest, next_map, rpc, hops>>
searchVars == <<tokens, seeds, pc, workers, joined, acc, result, finished>>
rangesVars == <<iter, yielded, passes>>
vars == <<overflow_checks, almanac, mapVars, resolveVars, searchVars, rangesVars>>

\* the variables a specification does not use stay at these values
MapIdle == n = 0 /\ op = <<"none", 0>> /\ out = None
ResolveIdle ==
    /\ rargs = [seed |-> 0, source |-> "seed", destination |-> "seed"]
    /\ dest = 0 /\ next_map = "seed" /\ rpc = "idle" /\ hops = <<>>
SearchIdle ==
    /\ tokens = <<>> /\ seeds = <<>> /\ pc = "idle" /\ workers = <<>>
    /\ joined = 0 /\ acc = None /\ result = None /\ finished = <<>>
RangesIdle == iter = 0 /\ yielded = <<>> /\ passes = <<>>

\* ------------------------------------------------------------------ SpecMap

Rules == {MapRange(d, s, l) : d \in Starts, s \in Starts, l \in 0..MaxLen}

InitMap ==
    /\ overflow_checks \in BOOLEAN
    /\ almanac \in {<<Map(Path("seed", "soil"), rs)>> : rs \in SeqsUpTo(Rules, MaxRules)}
    /\ n \in 0..(MaxLen + 2)
    /\ op = <<"none", 0>>
    /\ out = None
    /\ ResolveIdle
    /\ SearchIdle
    /\ RangesIdle

CallMapRangeMap(i) ==
    /\ op[1] = "none"
    /\ i \in 1..Len(almanac[1].ranges)
    /\ out' = MapRangeMap(almanac[1].ranges[i], n, overflow_checks)
    /\ op' = <<"MapRange::map", i>>
    /\ UNCHANGED <<rangesVars, overflow_checks, almanac, n, resolveVars, searchVars>>

CallMapMap ==
    /\ op[1] = "none"
    /\ out' = MapMap(almanac[1], n, overflow_checks)
    /\ op' = <<"Map::map", 0>>
    /\ UNCHANGED <<rangesVars, overflow_checks, almanac, n, resolveVars, searchVars>>

NextMap ==
    \/ \E i \in 1..MaxRules : CallMapRangeMap(i)
    \/ CallMapMap

SpecMap == InitMap /\ [][NextMap]_vars

\* values at both ends of u64
EdgeValues == {0, 1, Modulus - 2, Modulus - 1}

EdgeRules == {MapRange(d, s, l) : d \in EdgeValues, s \in EdgeValues, l \in EdgeValues}

\* one map of one rule or none, a value, no call made
InitOverflow ==
    /\ overflow_checks \in BOOLEAN
    /\ almanac \in {<<Map(Path("seed", "soil"), rs)>> :
                        rs \in {<<>>} \cup {<<r>> : r \in EdgeRules}}
    /\ n \in EdgeValues
    /\ op = <<"none", 0>>
    /\ out = None
    /\ ResolveIdle
    /\ SearchIdle
    /\ RangesIdle

SpecOverflow == InitOverflow /\ [][NextMap]_vars

\* ------------------------------------------------------------------ SpecResolve

\* the rule lists of the maps of the chains drawn as inputs
ChainRuleSeqs == {<<>>, <<MapRange(1, 0, 1)>>, <<MapRange(0, 2, 1)>>}

ChainMaps == {Map(Path(s, d), rs) : s \in Categories, d \in Categories, rs \in ChainRuleSeqs}

InitResolve ==
    /\ overflow_checks \in BOOLEAN
    /\ almanac \in SeqsUpTo(ChainMaps, MaxMaps)
    /\ rargs \in [seed : 0..(MaxRange + 1), source : {"seed"}, destination : Categories]
    /\ dest = rargs.seed
    /\ next_map = rargs.source
    /\ rpc = "loop"
    /\ hops = <<>>
    /\ MapIdle
    /\ SearchIdle
    /\ RangesIdle

\* a loop body that tests the target before it applies the map
ResolveHopBreaksEarly ==
    /\ rpc = "loop"
    /\ AlmanacMap(almanac, next_map) # 0
    /\ LET i == AlmanacMap(almanac, next_map)
           map == almanac[i]
           m == MapMap(map, dest, overflow_checks)
           d == HopValue(map, dest, overflow_checks)
       IN  IF map.category.destination = rargs.destination
           THEN rpc' = "done" /\ UNCHANGED <<dest, next_map, hops>>
           ELSE /\ hops' = IF Len(hops) <= Len(almanac)
                           THEN Append(hops, [map |-> i, before |-> dest,
                                              matched |-> m, after |-> d])
                           ELSE hops
                /\ IF d = Panic
                   THEN rpc' = "panic" /\ UNCHANGED <<dest, next_map>>
                   ELSE /\ dest' = d
                        /\ next_map' = map.category.destination
                        /\ rpc' = "loop"
    /\ UNCHANGED <<rangesVars, overflow_checks, almanac, rargs, mapVars, searchVars>>

\* a loop body with a hop-count guard: one hop more than there are maps is an error
ResolveHopGuarded ==
    /\ rpc = "loop"
    /\ AlmanacMap(almanac, next_map) # 0
    /\ LET i == AlmanacMap(almanac, next_map)
           map == almanac[i]
           m == MapMap(map, dest, overflow_checks)
           d == HopValue(map, dest, overflow_checks)
       IN  /\ hops' = IF Len(hops) <= Len(almanac)
                       THEN Append(hops, [map |-> i, before |-> dest, matched |-> m, after |-> d])
                       ELSE hops
           /\ IF d = Panic \/ Len(hops) >= Len(almanac)
              THEN rpc' = "panic" /\ UNCHANGED <<dest, next_map>>
              ELSE /\ dest' = d
                   /\ next_map' = map.category.destination
                   /\ rpc' = IF map.category.destination = rargs.destination
                             THEN "done" ELSE "loop"
    /\ UNCHANGED <<rangesVars, overflow_checks, almanac, rargs, mapVars, searchVars>>

\* one iteration of the while loop: the map is found
ResolveHop ==
    /\ rpc = "loop"
    /\ AlmanacMap(almanac, next_map) # 0
    /\ LET i == AlmanacMap(almanac, next_map)
           map == almanac[i]
           m == MapMap(map, dest, overflow_checks)
           d == HopValue(map, dest, overflow_checks)
       IN  /\ hops' = IF Len(hops) <= Len(almanac)
                       THEN Append(hops, [map |-> i, before |-> dest, matched |-> m, after |-> d])
                       ELSE hops
           /\ IF d = Panic
              THEN rpc' = "panic" /\ UNCHANGED <<dest, next_map>>
              ELSE /\ dest' = d
                   /\ next_map' = map.category.destination
                   /\ rpc' = IF map.category.destination = rargs.destination
                             THEN "done" ELSE "loop"
    /\ UNCHANGED <<rangesVars, overflow_checks, almanac, rargs, mapVars, searchVars>>

\* a resolve that fails when no map has the label as its source
ResolveExitFails ==
    /\ rpc = "loop"
    /\ AlmanacMap(almanac, next_map) = 0
    /\ rpc' = "panic"
    /\ UNCHANGED <<rangesVars, overflow_checks, almanac, rargs, dest, next_map, hops, mapVars, searchVars>>

\* the while-let fails: no map has the label as its source
ResolveExit ==
    /\ rpc = "loop"
    /\ AlmanacMap(almanac, next_map) = 0
    /\ rpc' = "done"
    /\ UNCHANGED <<rangesVars, overflow_checks, almanac, rargs, dest, next_map, hops, mapVars, searchVars>>

NextResolve == ResolveHop \/ ResolveExit

SpecResolve == InitResolve /\ [][NextResolve]_vars

\* the maps of the termination check: every path, without rules or with one rule
LoopMaps == {Map(Path(s, d), rs) : s \in Categories, d \in Categories,
                                   rs \in {<<>>, <<MapRange(1, 0, 1)>>}}

InitResolveFair ==
    /\ overflow_checks \in BOOLEAN
    /\ almanac \in SeqsUpTo(LoopMaps, MaxMaps)
    /\ rargs \in [seed : 0..MaxLen, source : {"seed"}, destination : Categories]
    /\ dest = rargs.seed
    /\ next_map = rargs.source
    /\ rpc = "loop"
    /\ hops = <<>>
    /\ MapIdle
    /\ SearchIdle
    /\ RangesIdle

\* resolve is a sequential loop: while an iteration can be made, one is made
SpecResolveFair == InitResolveFair /\ [][NextResolve]_vars /\ WF_vars(NextResolve)

\* ------------------------------------------------------------------ Spec

\* Iterator::max in the place of Iterator::min
IterMaxStep(a, x) == IF a = None \/ x > a THEN x ELSE a

\* Iterator::last in the place of Iterator::min
IterLastStep(a, x) == x

\* Iterator::min as a fold: the accumulator after one more item
IterMinStep(a, x) == IF a = None \/ x < a THEN x ELSE a

\* Worker { id, almanac, range }, with the position of its thread in Worker::run:
\* idx is the enumerate() index, min the fold of Iterator::min so far, printed
\* whether a progress line was written
NewWorker(i, range) ==
    [id |-> i, range |-> range, idx |-> 0, min |-> None, status |-> "running",
     printed |-> FALSE]

SearchRuleSeqs == ChainRuleSeqs \cup {<<MapRange(1, 1, 1)>>}

SearchAlmanacs ==
    {<<>>}
    \cup {<<Map(Path("seed", "location"), rs)>> : rs \in SearchRuleSeqs}
    \cup {<<Map(Path("seed", "soil"), rs1), Map(Path("soil", "location"), rs2)>> :
            rs1 \in SearchRuleSeqs, rs2 \in SearchRuleSeqs}
    \cup {<<Map(Path("seed", "soil"), <<>>), Map(Path("soil", "seed"), <<>>)>>}

\* seeds lines of numbers: starts at the odd places, lengths at the even ones
NumberLines ==
    {l \in SeqsUpTo(0..MaxRange, MaxSeeds) :
        /\ Len(l) >= 1
        /\ \A i \in 1..Len(l) : i % 2 = 1 => l[i] \in Starts}

\* seeds lines with a token that is no number ("seeds:" alone splits into one
\* empty token)
BadLines ==
    {l \in SeqsUpTo(Starts \cup {Bad}, 2) : \E i \in 1..Len(l) : l[i] = Bad}

\* the example of the puzzle text
ScenarioLine == <<79, 14, 55, 13>>

ScenarioAlmanacs ==
    {<<Map(Path("seed", "location"), rs)>> :
        rs \in {<<>>, <<MapRange(50, 50, 48)>>,
                <<MapRange(50, 98, 2), MapRange(52, 50, 48)>>}}

Init ==
    /\ overflow_checks \in BOOLEAN
    /\ \/ tokens \in NumberLines \cup BadLines /\ almanac \in SearchAlmanacs
       \/ tokens = ScenarioLine /\ almanac \in ScenarioAlmanacs
    /\ seeds = <<>>
    /\ pc = "start"
    /\ workers = <<>>
    /\ joined = 0
    /\ acc = None
    /\ result = None
    /\ finished = <<>>
    /\ MapIdle
    /\ ResolveIdle
    /\ RangesIdle

\* part_2 up to the scope: Seeds::from_str and its ? (the almanac is built)
ParseSeeds ==
    /\ pc = "start"
    /\ LET s == SeedsFromStr(tokens)
       IN  IF ~s.ok
           THEN pc' = "err" /\ UNCHANGED seeds
           ELSE pc' = "spawn" /\ seeds' = s.list
    /\ UNCHANGED <<rangesVars, overflow_checks, almanac, tokens, workers, joined, acc, result,
                   finished, mapVars, resolveVars>>

\* one turn of the collect() loop: the next range is taken and its Worker spawned
Spawn ==
    /\ pc = "spawn"
    /\ Len(workers) < NumChunks(seeds)
    /\ LET range == SeedsRange(seeds, Len(workers) + 1, overflow_checks)
       IN  IF range[2] = Panic
           THEN pc' = "panic" /\ UNCHANGED workers
           ELSE workers' = Append(workers, NewWorker(Len(workers), range))
                /\ UNCHANGED pc
    /\ UNCHANGED <<rangesVars, overflow_checks, almanac, tokens, seeds, joined, acc, result,
                   finished, mapVars, resolveVars>>

\* the ranges are exhausted: collect() returns the handles
Collected ==
    /\ pc = "spawn"
    /\ Len(workers) = NumChunks(seeds)
    /\ pc' = "join"
    /\ UNCHANGED <<rangesVars, overflow_checks, almanac, tokens, seeds, workers, joined, acc,
                   result, finished, mapVars, resolveVars>>

\* a run whose fold loses the item at which a progress line is written
WorkerStepPrintSkips(i) ==
    /\ i \in 1..Len(workers)
    /\ workers[i].status = "running"
    /\ LET w == workers[i]
           s == w.range[1] + w.idx
       IN  IF s < w.range[2]
           THEN LET r == Resolve(almanac, s, "seed", "location", overflow_checks)
                IN  /\ r # Diverge
                    /\ IF r = Panic
                       THEN /\ workers' = [workers EXCEPT ![i].status = "panicked"]
                            /\ finished' = Append(finished, i)
                       ELSE /\ \E emit \in BOOLEAN :
                                 workers' = [workers EXCEPT
                                     ![i].idx = w.idx + 1,
                                     ![i].min = IF emit THEN w.min
                                                ELSE IterMinStep(w.min, r),
                                     ![i].printed = w.printed \/ emit]
                            /\ UNCHANGED finished
           ELSE /\ workers' = [workers EXCEPT
                       ![i].status = IF w.min = None THEN "panicked" ELSE "done"]
                /\ finished' = Append(finished, i)
    /\ UNCHANGED <<rangesVars, overflow_checks, almanac, tokens, seeds, pc, joined, acc, result,
                   mapVars, resolveVars>>

\* a run that waits for the Worker spawned before it
WorkerStepWaitsForPrevious(i) ==
    /\ i \in 1..Len(workers)
    /\ workers[i].status = "running"
    /\ IF i = 1 THEN TRUE ELSE workers[i - 1].status # "running"
    /\ LET w == workers[i]
           s == w.range[1] + w.idx
       IN  IF s < w.range[2]
           THEN LET r == Resolve(almanac, s, "seed", "location", overflow_checks)
                IN  /\ r # Diverge
                    /\ IF r = Panic
                       THEN /\ workers' = [workers EXCEPT ![i].status = "panicked"]
                            /\ finished' = Append(finished, i)
                       ELSE /\ \E emit \in BOOLEAN :
                                 workers' = [workers EXCEPT
                                     ![i].idx = w.idx + 1,
                                     ![i].min = IterMinStep(w.min, r),
                                     ![i].printed = w.printed \/ emit]
                            /\ UNCHANGED finished
           ELSE /\ workers' = [workers EXCEPT
                       ![i].status = IF w.min = None THEN "panicked" ELSE "done"]
                /\ finished' = Append(finished, i)
    /\ UNCHANGED <<rangesVars, overflow_checks, almanac, tokens, seeds, pc, joined, acc, result,
                   mapVars, resolveVars>>

\* Worker::run, one item of the mapped range (or its end) on thread i. A
\* progress line is written or not as the clock has it (emit). seed_count =
\* range.1 - range.0 feeds the progress line only; range.1 < range.0 takes a
\* wrapped sum in Seeds::ranges, so a build without overflow checks, where the
\* difference wraps too. A resolve that never returns leaves the thread running.
WorkerStep(i) ==
    /\ i \in 1..Len(workers)
    /\ workers[i].status = "running"
    /\ LET w == workers[i]
           s == w.range[1] + w.idx
       IN  IF s < w.range[2]
           THEN LET r == Resolve(almanac, s, "seed", "location", overflow_checks)
                IN  /\ r # Diverge
                    /\ IF r = Panic
                       THEN /\ workers' = [workers EXCEPT ![i].status = "panicked"]
                            /\ finished' = Append(finished, i)
                       ELSE /\ \E emit \in BOOLEAN :
                                 workers' = [workers EXCEPT
                                     ![i].idx = w.idx + 1,
                                     ![i].min = IterMinStep(w.min, r),
                                     ![i].printed = w.printed \/ emit]
                            /\ UNCHANGED finished
           ELSE /\ workers' = [workers EXCEPT
                       ![i].status = IF w.min = None THEN "panicked" ELSE "done"]
                /\ finished' = Append(finished, i)
    /\ UNCHANGED <<rangesVars, overflow_checks, almanac, tokens, seeds, pc, joined, acc, result,
                   mapVars, resolveVars>>

\* a reduction that takes the next handle without waiting for its thread
JoinNoWait ==
    /\ pc = "join"
    /\ joined < Len(workers)
    /\ IF workers[joined + 1].status = "panicked"
       THEN pc' = "panic" /\ UNCHANGED <<joined, acc>>
       ELSE /\ acc' = IterMinStep(acc, workers[joined + 1].min)
            /\ joined' = joined + 1
            /\ UNCHANGED pc
    /\ UNCHANGED <<rangesVars, overflow_checks, almanac, tokens, seeds, workers, result,
                   finished, mapVars, resolveVars>>

\* a reduction that drops the handle of a thread that panicked
JoinSkipsPanicked ==
    /\ pc = "join"
    /\ joined < Len(workers)
    /\ workers[joined + 1].status # "running"
    /\ acc' = IF workers[joined + 1].status = "panicked"
              THEN acc ELSE IterMinStep(acc, workers[joined + 1].min)
    /\ joined' = joined + 1
    /\ UNCHANGED <<rangesVars, overflow_checks, almanac, tokens, seeds, pc, workers, result,
                   finished, mapVars, resolveVars>>

\* handles.into_iter().map(|h| h.join().unwrap()).min(): the next handle, which
\* join() waits for; the unwrap panics on a thread that panicked
Join ==
    /\ pc = "join"
    /\ joined < Len(workers)
    /\ workers[joined + 1].status # "running"
    /\ IF workers[joined + 1].status = "panicked"
       THEN pc' = "panic" /\ UNCHANGED <<joined, acc>>
       ELSE /\ acc' = IterMinStep(acc, workers[joined + 1].min)
            /\ joined' = joined + 1
            /\ UNCHANGED pc
    /\ UNCHANGED <<rangesVars, overflow_checks, almanac, tokens, seeds, workers, result,
                   finished, mapVars, resolveVars>>

\* min() returns and ok_or(..)? turns it into the answer or the error
Reduce ==
    /\ pc = "join"
    /\ joined = Len(workers)
    /\ IF acc = None
       THEN pc' = "err" /\ UNCHANGED result
       ELSE pc' = "done" /\ result' = acc
    /\ UNCHANGED <<rangesVars, overflow_checks, almanac, tokens, seeds, workers, joined, acc,
                   finished, mapVars, resolveVars>>

Next ==
    \/ ParseSeeds
    \/ Spawn
    \/ Collected
    \/ \E i \in 1..((MaxSeeds + 1) \div 2) : WorkerStep(i)
    \/ Join
    \/ Reduce

Spec == Init /\ [][Next]_vars

\* the almanacs of the liveness check: one map from seed to location, and the
\* two maps that lead from seed back to seed
FairAlmanacs ==
    {<<Map(Path("seed", "location"), rs)>> : rs \in SearchRuleSeqs}
    \cup {<<Map(Path("seed", "soil"), <<>>), Map(Path("soil", "seed"), <<>>)>>}

InitFair ==
    /\ overflow_checks \in BOOLEAN
    /\ tokens \in NumberLines
    /\ almanac \in FairAlmanacs
    /\ seeds = <<>>
    /\ pc = "start"
    /\ workers = <<>>
    /\ joined = 0
    /\ acc = None
    /\ result = None
    /\ finished = <<>>
    /\ MapIdle
    /\ ResolveIdle
    /\ RangesIdle

\* the main thread and every spawned thread keep running while they can
SpecFair ==
    /\ InitFair
    /\ [][Next]_vars
    /\ WF_vars(ParseSeeds) /\ WF_vars(Spawn) /\ WF_vars(Collected)
    /\ \A i \in 1..((MaxSeeds + 1) \div 2) : WF_vars(WorkerStep(i))
    /\ WF_vars(Join) /\ WF_vars(Reduce)

\* ------------------------------------------------------------------ Seeds::ranges

\* the seed lists Seeds::from_str can build: one number at least
SeedLists == {l \in SeqsUpTo(0..MaxRange, MaxSeeds) : Len(l) >= 1}

InitRanges ==
    /\ overflow_checks \in BOOLEAN
    /\ almanac = <<>>
    /\ seeds \in SeedLists
    /\ tokens = <<>> /\ pc = "idle" /\ workers = <<>>
    /\ joined = 0 /\ acc = None /\ result = None /\ finished = <<>>
    /\ MapIdle
    /\ ResolveIdle
    /\ RangesIdle

\* seeds.ranges(): a new iterator over the chunks of the list
RangesCall ==
    /\ iter = 0
    /\ Len(passes) < MaxPasses
    /\ iter' = 1
    /\ yielded' = <<>>
    /\ UNCHANGED <<passes, overflow_checks, almanac, mapVars, resolveVars, searchVars>>

\* next() on the iterator: the closure on the next chunk; an overflowing sum
\* panics and no item is yielded
RangesNext ==
    /\ iter \in 1..NumChunks(seeds)
    /\ LET range == SeedsRange(seeds, iter, overflow_checks)
       IN  IF range[2] = Panic
           THEN iter' = Panic /\ UNCHANGED yielded
           ELSE iter' = iter + 1 /\ yielded' = Append(yielded, range)
    /\ UNCHANGED <<passes, overflow_checks, almanac, mapVars, resolveVars, searchVars>>

\* next() returns None: the chunks are exhausted
RangesEnd ==
    /\ iter = NumChunks(seeds) + 1
    /\ passes' = Append(passes, yielded)
    /\ iter' = 0
    /\ UNCHANGED <<yielded, overflow_checks, almanac, mapVars, resolveVars, searchVars>>

NextRanges == RangesCall \/ RangesNext \/ RangesEnd

SpecRanges == InitRanges /\ [][NextRanges]_vars

\* ------------------------------------------------------------------ claims

\* the half-open source interval [source_start, source_start + len) of a rule
Covers(r, v) == r.source_start <= v /\ v < r.source_start + r.len

\* the translation destination_start + (v - source_start)
Translate(r, v) == r.destination_start + (v - r.source_start)

\* C1: MapRange.map(v) returns destination_start + (v - source_start) for
\* source_start <= v < source_start + len and no-match for every other v; in
\* particular v = source_start + len is not matched.
C1_HalfOpenInterval ==
    op[1] = "MapRange::map" =>
        LET r == almanac[1].ranges[op[2]]
        IN  out = IF Covers(r, n) THEN Translate(r, n) ELSE None

\* the call C1 is about has been made on the value at the end of the interval
C1_AtIntervalEnd ==
    /\ op[1] = "MapRange::map"
    /\ LET r == almanac[1].ranges[op[2]]
       IN  r.len > 0 /\ n = r.source_start + r.len

\* C2: a rule whose len is 0 matches no value, v = source_start included.
C2_ZeroLenMatchesNothing ==
    (op[1] = "MapRange::map" /\ almanac[1].ranges[op[2]].len = 0) => out = None

\* MapRange::map has been called on the start of a rule of len 0
C2_ZeroLenAtStart ==
    /\ op[1] = "MapRange::map"
    /\ LET r == almanac[1].ranges[op[2]]
       IN  r.len = 0 /\ n = r.source_start

\* C3: a hop of Almanac::resolve through a map none of whose rules covers the
\* value (half-open intervals) finds no match and leaves the value unchanged.
C3_IdentityFallback ==
    \A k \in 1..Len(hops) :
        LET h == hops[k]
            rs == almanac[h.map].ranges
        IN  (\A j \in 1..Len(rs) : ~Covers(rs[j], h.before))
                => (h.matched = None /\ h.after = h.before)

\* a hop went through a map with rules, none of which covers the value
C3_UncoveredHop ==
    \E k \in 1..Len(hops) :
        LET h == hops[k]
            rs == almanac[h.map].ranges
        IN  Len(rs) > 0 /\ \A j \in 1..Len(rs) : ~Covers(rs[j], h.before)

\* C4: when two or more rules of a map cover the value, Map.map returns the
\* translation of the first of them in declaration order.
C4_FirstDeclaredWins ==
    op[1] = "Map::map" =>
        LET rs == almanac[1].ranges
            covering == {j \in 1..Len(rs) : Covers(rs[j], n)}
        IN  Cardinality(covering) >= 2 => out = Translate(rs[MinOf(covering)], n)

\* Map::map has been called on a value that two rules with different
\* translations cover
C4_Overlap ==
    /\ op[1] = "Map::map"
    /\ LET rs == almanac[1].ranges
           covering == {j \in 1..Len(rs) : Covers(rs[j], n)}
       IN  \E a \in covering, b \in covering :
               a < b /\ Translate(rs[a], n) # Translate(rs[b], n)

\* C5: resolve(v, "seed", "seed") returns v and applies no map, whatever the
\* chain holds.
C5_SameOriginAndTarget ==
    (rpc = "done" /\ rargs.source = rargs.destination)
        => (dest = rargs.seed /\ hops = <<>>)

\* resolve(v, "seed", "seed") has returned on a chain with a map from "seed"
C5_SeedToSeedReturned ==
    /\ rpc = "done"
    /\ rargs.source = "seed" /\ rargs.destination = "seed"
    /\ AlmanacMap(almanac, "seed") # 0

\* the places of the chunks of a seed list, and the values of the k-th range
ChunkIds(list) == {k \in 1..Len(list) : 2 * k - 1 <= Len(list)}

RangeValues(list, k) ==
    LET start == list[2 * k - 1]
        length == IF 2 * k <= Len(list) THEN list[2 * k] ELSE list[2 * k - 1]
    IN  start..(start + length - 1)

\* resolve(v, "seed", "location") over every value of every seed range
SequentialLocations ==
    {Resolve(almanac, v, "seed", "location", overflow_checks) :
        v \in UNION {RangeValues(seeds, k) : k \in ChunkIds(seeds)}}

\* C6: the value the parallel search returns is the minimum of
\* resolve(v, "seed", "location") over every v of every (non-empty) seed range,
\* under every interleaving of the workers.
C6_ParallelEqualsSequential ==
    (pc = "done" /\ \A k \in ChunkIds(seeds) : RangeValues(seeds, k) # {})
        => result = MinOf(SequentialLocations)

\* the search returned with two workers of two values each over a chain of two
\* hops, the minimum being the location of no range start
C6_TwoWorkersReturned ==
    /\ pc = "done"
    /\ Len(almanac) = 2
    /\ Len(workers) = 2
    /\ \A i \in 1..2 :
           /\ workers[i].range[2] - workers[i].range[1] = 2
           /\ result # Resolve(almanac, workers[i].range[1], "seed", "location",
                               overflow_checks)

\* Iterator::min over a sequence of results
RECURSIVE FoldMin(_, _)
FoldMin(seq, a) ==
    IF seq = <<>> THEN a ELSE FoldMin(Tail(seq), IterMinStep(a, Head(seq)))

\* C7: the final minimum is the same for every order in which the Workers
\* complete: reducing their results in any order gives the value returned.
C7_OrderIndependent ==
    pc = "done" =>
        \A p \in Permutations(1..Len(workers)) :
            FoldMin([k \in 1..Len(workers) |-> workers[p[k]].min], None) = result

\* the search returned after the second worker ended before the first, the two
\* with different results
C7_CompletedOutOfOrder ==
    /\ pc = "done"
    /\ Len(workers) = 2
    /\ finished = <<2, 1>>
    /\ workers[1].min # workers[2].min

\* C8: when a (start, length) pair of the seed list has length 0, the search
\* reports an error and no Worker is ever spawned.
C8_ZeroLengthRejected ==
    (\E k \in 1..Len(tokens) : 2 * k <= Len(tokens) /\ tokens[2 * k] = 0)
        => (workers = <<>> /\ pc \notin {"done", "panic"})

\* a Worker runs on the empty range of a pair of length 0
C8_WorkerOnEmptyRange ==
    \E i \in 1..Len(workers) :
        /\ 2 * i <= Len(seeds) /\ seeds[2 * i] = 0
        /\ workers[i].range[1] = workers[i].range[2]

\* the seeds line holds no number at all
NoNumbers == \A i \in 1..Len(tokens) : tokens[i] = Bad

\* C9: with zero seed ranges the search returns an error value (no number, no
\* panic) and spawns no Worker.
C9_NoRangesIsError ==
    NoNumbers => (workers = <<>> /\ result = None /\ pc \in {"start", "err"})

\* the search has returned its error on a seeds line without numbers
C9_ErrorReturned == NoNumbers /\ pc = "err"

\* the chain is one seed-to-location hop whose rules change no value
IdentityHop ==
    /\ Len(almanac) = 1
    /\ almanac[1].category = Path("seed", "location")
    /\ \A j \in 1..Len(almanac[1].ranges) :
           almanac[1].ranges[j].destination_start = almanac[1].ranges[j].source_start

\* C10: over a single identity seed-to-location hop the search returns the
\* smallest range start; for the seed list [79, 14, 55, 13] the ranges are
\* (79,93) and (55,68) and the result is 55.
C10_IdentityHopSmallestStart ==
    IdentityHop =>
        /\ pc = "done" => result = MinOf({seeds[2 * k - 1] : k \in ChunkIds(seeds)})
        /\ tokens = ScenarioLine =>
              /\ \A i \in 1..Len(workers) :
                     workers[i].range = <<<<79, 93>>, <<55, 68>>>>[i]
              /\ pc = "done" => result = 55

\* the search returned on the seed list [79, 14, 55, 13] over an identity hop
\* that has a rule
C10_ScenarioReturned ==
    /\ IdentityHop
    /\ almanac[1].ranges # <<>>
    /\ tokens = ScenarioLine
    /\ pc = "done"

\* the forward walk from a label: the indices of the maps taken, up to the map
\* whose destination is the target; it ends in 0 when a label has no map and in
\* -1 when it comes back to a label it has left
RECURSIVE WalkFrom(_, _, _, _)
WalkFrom(maps, label, target, left) ==
    LET hits == {i \in 1..Len(maps) : maps[i].category.source = label}
        i == MinOf(hits)
    IN  IF label \in left THEN <<-1>>
        ELSE IF hits = {} THEN <<0>>
        ELSE IF maps[i].category.destination = target THEN <<i>>
        ELSE <<i>> \o WalkFrom(maps, maps[i].category.destination, target,
                               left \cup {label})

Walk(maps, origin, target) == WalkFrom(maps, origin, target, {})

WalkEnd(maps, origin, target) ==
    LET w == Walk(maps, origin, target) IN w[Len(w)]

C12_EmptyRangeFailsSearch ==
    \A i \in 1..Len(workers) :
        workers[i].range[1] = workers[i].range[2]
            => (workers[i].status # "done" /\ pc # "done" /\ result = None)

\* the search has panicked on the empty range of its second Worker after it
\* had joined the first one's minimum
C12_PanickedAfterPartialMinimum ==
    /\ pc = "panic"
    /\ Len(workers) = 2
    /\ workers[2].range[1] = workers[2].range[2]
    /\ workers[2].status = "panicked"
    /\ workers[1].status = "done"
    /\ joined = 1 /\ acc # None

\* the maps w[k], w[k+1], ... applied in that order to v, each with the identity
\* for a value it does not match
RECURSIVE ComposeHops(_, _, _, _, _)
ComposeHops(maps, w, k, v, checks) ==
    IF k > Len(w) THEN v
    ELSE LET m == MapMap(maps[w[k]], v, checks)
         IN  ComposeHops(maps, w, k + 1, IF m = None THEN v ELSE m, checks)

\* the maps of the hops made so far
HopMaps == [k \in 1..Len(hops) |-> hops[k].map]

\* C13: when the forward walk from origin reaches the map whose destination is
\* the target, resolve applies the maps of the walk in walk order, each with the
\* identity fallback, returns their composition on v, and applies no map beyond
\* the last of them.
C13_MultiHopComposition ==
    LET w == Walk(almanac, rargs.source, rargs.destination)
    IN  w[Len(w)] > 0 =>
            /\ Len(hops) <= Len(w)
            /\ \A k \in 1..Len(hops) : hops[k].map = w[k]
            /\ rpc = "done" =>
                   /\ HopMaps = w
                   /\ dest = ComposeHops(almanac, w, 1, rargs.seed, overflow_checks)

\* resolve has returned after two hops that both changed the value
C13_TwoHopsReturned ==
    /\ rpc = "done"
    /\ Len(hops) = 2
    /\ almanac[hops[2].map].category.destination = rargs.destination
    /\ \A k \in 1..2 : hops[k].after # hops[k].before

\* C14: when the walk comes to a label that no map has as its source, resolve
\* stops and returns the value as it stands, without an error; with no map
\* from the origin it returns v.
C14_ExhaustedChainReturnsValue ==
    LET w == Walk(almanac, rargs.source, rargs.destination)
        taken == SubSeq(w, 1, Len(w) - 1)
    IN  w[Len(w)] = 0 =>
            /\ rpc # "panic"
            /\ rpc = "done" =>
                   /\ HopMaps = taken
                   /\ dest = ComposeHops(almanac, taken, 1, rargs.seed, overflow_checks)
                   /\ taken = <<>> => dest = rargs.seed

\* resolve has returned a changed value from a chain that ran out of maps
\* before the target
C14_ReturnedFromExhaustedChain ==
    /\ rpc = "done"
    /\ WalkEnd(almanac, rargs.source, rargs.destination) = 0
    /\ Len(hops) >= 1
    /\ dest # rargs.seed

\* the forward walk comes back to a label it has left, without meeting the target
WalkCycles == WalkEnd(almanac, rargs.source, rargs.destination) = -1

\* C15: resolve terminates whenever the forward walk from origin reaches a map
\* whose destination is the target or a label that no map has as its source;
\* when the walk enters a cycle that never meets the target, resolve never
\* terminates.
C15_TerminatesUnlessCycle ==
    /\ (~WalkCycles) ~> (rpc = "done")
    /\ [](WalkCycles => rpc = "loop")

\* resolve has made more hops than there are maps and is still in its loop
C15_StillLoopingInCycle ==
    WalkCycles /\ rpc = "loop" /\ Len(hops) > Len(almanac)

\* C16: the reduction takes a Worker's scalar only after that Worker has
\* finished, and the search returns a value only after every spawned Worker has
\* produced its scalar; no value is returned while a Worker is running.
C16_JoinBarrier ==
    /\ \A i \in 1..joined : workers[i].status = "done"
    /\ result # None =>
           /\ joined = Len(workers)
           /\ Len(workers) = Cardinality(ChunkIds(seeds))
           /\ \A i \in 1..Len(workers) : workers[i].status = "done"

\* the scheduler holds the first scalar and waits for the second Worker, which
\* is in the middle of its range
C16_WaitingForSecondWorker ==
    /\ pc = "join"
    /\ joined = 1
    /\ acc # None
    /\ Len(workers) = 2
    /\ workers[2].status = "running"
    /\ workers[2].idx = 1

\* the locations of the values of a Worker's range
RangeLocations(w) ==
    {Resolve(almanac, v, "seed", "location", overflow_checks) :
        v \in w.range[1]..(w.range[2] - 1)}

\* C17: a Worker that returns, returns the minimum of resolve(v, "seed",
\* "location") over every v of [range.0, range.1), whether or not progress
\* lines were written.
C17_WorkerReturnsRangeMinimum ==
    \A i \in 1..Len(workers) :
        workers[i].status = "done" =>
            /\ workers[i].range[1] < workers[i].range[2]
            /\ workers[i].idx = workers[i].range[2] - workers[i].range[1]
            /\ workers[i].min = MinOf(RangeLocations(workers[i]))

\* a Worker that wrote a progress line has returned a minimum that is not the
\* location of the first value of its range
C17_PrintedAndReturnedLaterMinimum ==
    \E i \in 1..Len(workers) :
        /\ workers[i].status = "done"
        /\ workers[i].printed
        /\ workers[i].idx = 2
        /\ workers[i].min
             # Resolve(almanac, workers[i].range[1], "seed", "location", overflow_checks)

\* C18: the scheduler creates one Worker per range of Seeds::ranges, in the
\* order of the ranges; each Worker finishes once and the reduction takes one
\* scalar of each.
C18_OneWorkerPerRange ==
    /\ Len(workers) <= Cardinality(ChunkIds(seeds))
    /\ pc \in {"join", "done"} => Len(workers) = Cardinality(ChunkIds(seeds))
    /\ \A i \in 1..Len(workers) :
           /\ workers[i].id = i - 1
           /\ workers[i].range[1] = seeds[2 * i - 1]
           /\ workers[i].status # "running" <=> \E k \in 1..Len(finished) : finished[k] = i
    /\ \A k \in 1..Len(finished) : \A l \in 1..Len(finished) :
           finished[k] = finished[l] => k = l
    /\ joined <= Len(finished)
    /\ pc = "done" => joined = Len(workers) /\ Len(finished) = Len(workers)

\* the search has returned from a seeds line of four numbers with two Workers
C18_TwoRangesTwoWorkers ==
    /\ pc = "done"
    /\ Len(seeds) = 4
    /\ Len(workers) = 2
    /\ Len(finished) = 2
    /\ joined = 2

\* the seeds line parses, every range is non-empty and does not overflow, and
\* every resolve call of the search returns
SearchCanFinish ==
    LET s == SeedsFromStr(tokens)
    IN  /\ s.ok
        /\ \A k \in ChunkIds(s.list) :
               LET range == SeedsRange(s.list, k, overflow_checks)
               IN  /\ range[2] # Panic
                   /\ range[1] < range[2]
                   /\ \A v \in range[1]..(range[2] - 1) :
                          Resolve(almanac, v, "seed", "location", overflow_checks)
                              \notin {Panic, Diverge}

\* C19: under fair scheduling, when every seed range is non-empty and every
\* resolve call returns, every Worker eventually finishes and the search
\* eventually returns the global minimum; a running Worker can always take its
\* next step, whatever the other Workers do.
C19_SearchEventuallyReturns ==
    /\ SearchCanFinish ~>
           /\ pc = "done"
           /\ \A i \in 1..Len(workers) : workers[i].status = "done"
           /\ result = MinOf(SequentialLocations)
    /\ [](SearchCanFinish =>
              \A i \in 1..Len(workers) :
                  workers[i].status = "running" => ENABLED WorkerStep(i))

\* the second Worker has finished while the first is still in its range
C19_SecondFinishedFirstRunning ==
    /\ SearchCanFinish
    /\ Len(workers) = 2
    /\ workers[1].status = "running"
    /\ workers[1].idx = 1
    /\ workers[2].status = "done"

\* C20: for every rule whose interval end source_start + len is representable
\* and every value v of its interval such that destination_start +
\* (v - source_start) is representable, MapRange::map returns that result, with
\* no overflow on the way.
C20_NoIntermediateOverflow ==
    op[1] = "MapRange::map" =>
        LET r == almanac[1].ranges[op[2]]
        IN  (/\ r.source_start + r.len < Modulus
             /\ Covers(r, n)
             /\ Translate(r, n) < Modulus)
                => out = Translate(r, n)

\* the call has been made, with overflow checks, on a matched value whose
\* translation is representable while destination_start + v is not
C20_SumExceedsU64 ==
    /\ op[1] = "MapRange::map"
    /\ overflow_checks
    /\ LET r == almanac[1].ranges[op[2]]
       IN  /\ r.source_start + r.len < Modulus
           /\ Covers(r, n)
           /\ Translate(r, n) < Modulus
           /\ r.destination_start + n >= Modulus

\* the interval the claim gives for the k-th chunk of the list: start + length
\* for a pair, x + x for a lone trailing x
PairInterval(list, k) ==
    IF 2 * k <= Len(list)
    THEN <<list[2 * k - 1], list[2 * k - 1] + list[2 * k]>>
    ELSE <<list[2 * k - 1], list[2 * k - 1] + list[2 * k - 1]>>

\* C21: Seeds::ranges yields, in list order, (start, start + length) for every
\* complete pair and (x, x + x) for a lone trailing x; an iterator run to its
\* end has yielded ceil(n / 2) ranges; every call yields the same sequence.
C21_RangesPairwiseAndRestartable ==
    /\ \A k \in 1..Len(yielded) : yielded[k] = PairInterval(seeds, k)
    /\ \A j \in 1..Len(passes) :
           /\ 2 * Len(passes[j]) \in {Len(seeds), Len(seeds) + 1}
           /\ \A k \in 1..Len(passes[j]) : passes[j][k] = PairInterval(seeds, k)
           /\ passes[j] = passes[1]

\* ranges() has been run to its end twice on a list of three numbers whose
\* last is not 0
C21_OddListTwice ==
    /\ Len(passes) = 2
    /\ Len(seeds) = 3
    /\ seeds[3] > 0
    /\ Len(passes[2]) = 2
    /\ passes[2][2] = <<seeds[3], 2 * seeds[3]>>

====
